---- MODULE Spec2Model ----
(***************************************************************************)
(* State-machine model of src/src/extension.ts: the gersemi formatter      *)
(* bridge (runGersemi), the document formatting provider and the manual    *)
(* gersemi.formatDocument command, together with the events the host and   *)
(* the child process deliver to them.                                      *)
(*                                                                         *)
(* Texts are sequences of UTF-16 code units of the Basic Multilingual      *)
(* Plane, byte streams are sequences of numbers 0..255.                    *)
(***************************************************************************)
EXTENDS Integers, Sequences, FiniteSets

\* ---------------------------------------------------------------- bounds
MaxLen == 1       \* longest text the user types, longest text a request is started on

\* the invocations of one behaviour
ReqIds == {1, 2}

\* ------------------------------------------------------------- alphabets
\* 'a' (one UTF-8 byte) and e-acute (two UTF-8 bytes)
Alphabet == {97, 233}

RECURSIVE TextsOfLen(_)
TextsOfLen(n) ==
  IF n = 0 THEN {<< >>}
  ELSE {Append(t, c) : t \in TextsOfLen(n - 1), c \in Alphabet}

RECURSIVE TextsUpTo(_)
TextsUpTo(n) == IF n = 0 THEN TextsOfLen(0) ELSE TextsOfLen(n) \cup TextsUpTo(n - 1)

\* workspace folders, each with whether .gersemirc exists directly under it
Folder(uri, rc) == [uri |-> uri, rc |-> rc]
Workspaces ==
  { << >>,
    <<Folder("/w1", TRUE)>>,
    <<Folder("/w1", FALSE)>>,
    <<Folder("/w1", FALSE), Folder("/w2", TRUE)>> }

\* ------------------------------------------------- string <-> byte codecs
\* U+FFFD, what Buffer.toString() puts for every malformed byte sequence
ReplacementChar == 65533

IsSurrogate(c) == c >= 55296 /\ c <= 57343

\* child.stdin.write(input): the string is written as UTF-8
EncodeChar(c) ==
  IF c < 128 THEN <<c>>
  ELSE IF c < 2048 THEN <<192 + (c \div 64), 128 + (c % 64)>>
  ELSE IF IsSurrogate(c) THEN <<239, 191, 189>>
  ELSE <<224 + (c \div 4096), 128 + ((c \div 64) % 64), 128 + (c % 64)>>

RECURSIVE Encode(_)
Encode(t) == IF t = << >> THEN << >> ELSE EncodeChar(Head(t)) \o Encode(Tail(t))

IsCont(b) == b >= 128 /\ b <= 191

Drop(s, n) == SubSeq(s, n + 1, Len(s))

\* second byte allowed after a three-byte lead (no overlong forms, no surrogates)
SecondOk(lead, b) ==
  IF lead = 224 THEN b >= 160 /\ b <= 191
  ELSE IF lead = 237 THEN b >= 128 /\ b <= 159
  ELSE IsCont(b)

\* d.toString(): one chunk decoded on its own as UTF-8; a sequence that is
\* malformed or cut short by the end of the chunk becomes U+FFFD
RECURSIVE ToString(_)
ToString(b) ==
  IF b = << >> THEN << >>
  ELSE LET b1 == Head(b) IN
    IF b1 < 128 THEN <<b1>> \o ToString(Tail(b))
    ELSE IF b1 >= 194 /\ b1 <= 223 THEN
      IF Len(b) >= 2 /\ IsCont(b[2])
      THEN <<(b1 - 192) * 64 + (b[2] - 128)>> \o ToString(Drop(b, 2))
      ELSE <<ReplacementChar>> \o ToString(Tail(b))
    ELSE IF b1 >= 224 /\ b1 <= 239 THEN
      IF Len(b) >= 2 /\ SecondOk(b1, b[2]) THEN
        IF Len(b) >= 3 /\ IsCont(b[3])
        THEN <<(b1 - 224) * 4096 + (b[2] - 128) * 64 + (b[3] - 128)>>
               \o ToString(Drop(b, 3))
        ELSE <<ReplacementChar>> \o ToString(Drop(b, 2))
      ELSE <<ReplacementChar>> \o ToString(Tail(b))
    ELSE <<ReplacementChar>> \o ToString(Tail(b))

RECURSIVE ConcatStrings(_)
\* the chunks of a stream, each turned into a string, joined in arrival order
ConcatStrings(chunks) ==
  IF chunks = << >> THEN << >>
  ELSE ToString(Head(chunks)) \o ConcatStrings(Tail(chunks))



\* ------------------------------------------------------ formatter stubs
\* JS null: the exit code 'close' reports for a process that a signal killed
NullCode == -1

ErrText == <<233>>
OutText == <<97>>

\* what a spawned process does: echo its stdin or print a fixed text, what it
\* prints on stderr, its exit code, and whether it reads its stdin at all
Stub(echo, out, err, code, reads) ==
  [echo |-> echo, out |-> out, err |-> err, code |-> code, reads |-> reads]

Echo0 == Stub(TRUE, << >>, << >>, 0, TRUE)
EchoWarn0 == Stub(TRUE, << >>, Encode(ErrText), 0, TRUE)
Fail1 == Stub(FALSE, Encode(OutText), Encode(ErrText), 1, TRUE)
Killed == Stub(FALSE, << >>, Encode(ErrText), NullCode, FALSE)
NoProgram == Stub(FALSE, << >>, << >>, NullCode, FALSE)

Programs == {Echo0, EchoWarn0, Fail1, Killed}

\* outcomes of spawn('gersemi', args): the process starts and runs a program;
\* it cannot be started and the child emits 'error'; spawn itself throws
Spawned(prog) == [launch |-> "ok", prog |-> prog]
Outcomes ==
  {Spawned(g) : g \in Programs}
    \cup {[launch |-> "errorEvent", prog |-> NoProgram],
          [launch |-> "throw", prog |-> NoProgram]}

\* ------------------------------------------------------------------ state
VARIABLES
  doc,              \* text of the document (of the active editor, of the provider)
  activeEditor,     \* vscode.window.activeTextEditor is defined
  workspaceFolders, \* vscode.workspace.workspaceFolders, with the files under them
  reqs,             \* per invocation: the closure of the caller and of runGersemi
  procs,            \* per spawn: the child process and its streams
  notifications,    \* vscode.window.showErrorMessage calls, in order
  escaped           \* errors no handler took: <<invocation, what>>

vars == <<doc, activeEditor, workspaceFolders, reqs, procs, notifications, escaped>>

NullResult == [isNull |-> TRUE, text |-> << >>]
Str(t) == [isNull |-> FALSE, text |-> t]

\* ------------------------------------------------------------ runGersemi
\* as ConfigPath, but looking under every workspace folder
ConfigPathAnyFolder(folders) ==
  IF \E i \in DOMAIN folders : folders[i].rc
  THEN LET i == CHOOSE j \in DOMAIN folders : folders[j].rc
       IN <<<<folders[i].uri, ".gersemirc">>>>
  ELSE << >>

\* lines 29-36: .gersemirc directly under the first workspace folder;
\* undefined is the empty sequence, a path is a sequence of one
ConfigPath(folders) ==
  IF Len(folders) > 0 /\ folders[1].rc
  THEN <<<<folders[1].uri, ".gersemirc">>>>
  ELSE << >>

\* lines 39-42: the argument list
Args(filename, configPath) ==
  IF configPath # << >>
  THEN <<"-", "--config", configPath[1]>>
  ELSE <<"-">>

\* lines 49 and 52: an accumulator after one more chunk
Accumulate(acc, d) == acc \o ToString(d)

\* as ResolveValue, but testing the code for falsiness (!code)
ResolveValueFalsy(code, stdout) ==
  IF code = 0 \/ code = NullCode THEN Str(stdout) ELSE NullResult

\* lines 57-62: the value the promise resolves with
ResolveValue(code, stdout) == IF code = 0 THEN Str(stdout) ELSE NullResult

\* line 60
ErrorMessage(stderr) == [prefix |-> "gersemi failed: ", stderr |-> stderr]

\* lines 57-61: the notifications after the close handler has run
Notify(shown, r, code, stderr) ==
  IF code = 0 THEN shown
  ELSE Append(shown, [req |-> r, msg |-> ErrorMessage(stderr)])

FileNames == {"CMakeLists.txt", "rules.cmake"}

\* the closure of one invocation; bridge: runGersemi was called
NewRequest(kind, bridge, filename, input, launch) ==
  [kind |-> kind, bridge |-> bridge, filename |-> filename, input |-> input,
   stdout |-> << >>, stderr |-> << >>,
   promise |-> IF ~bridge THEN "none"
               ELSE IF launch = "throw" THEN "rejected" ELSE "pending",
   result |-> NullResult, resolves |-> 0,
   edits |-> << >>, done |-> (~bridge \/ launch = "throw")]

\* line 45 and lines 66-67: the child, with the input written to its stdin
NewProcess(owner, filename, input, launch, prog) ==
  LET started == launch = "ok"
      sent == IF started THEN Encode(input) ELSE << >> IN
  [owner |-> owner, launch |-> launch, prog |-> prog,
   args |-> Args(filename, ConfigPath(workspaceFolders)),
   stdin |-> sent, stdinEnded |-> started,
   outRem |-> IF ~started THEN << >> ELSE IF prog.echo THEN sent ELSE prog.out,
   errRem |-> IF started THEN prog.err ELSE << >>,
   outChunks |-> << >>, errChunks |-> << >>,
   closeEmitted |-> FALSE, closeHandled |-> FALSE,
   errorEmitted |-> FALSE, stdinFailed |-> FALSE]

\* lines 23-68: the synchronous part of one call
RunGersemi(kind, filename, launch, prog) ==
  LET r == Len(reqs) + 1 IN
  /\ reqs' = Append(reqs, NewRequest(kind, TRUE, filename, doc, launch))
  /\ procs' = Append(procs, NewProcess(r, filename, doc, launch, prog))
  /\ escaped' = IF launch = "throw" THEN escaped \cup {<<r, "rejected">>} ELSE escaped

CanStart == (Len(reqs) + 1) \in ReqIds /\ Len(doc) <= MaxLen

\* ----------------------------------------------------------- entry points
\* lines 9-13: the provider up to its await
ProvideDocumentFormattingEdits(filename, launch, prog) ==
  /\ CanStart
  /\ RunGersemi("auto", filename, launch, prog)
  /\ UNCHANGED <<doc, activeEditor, workspaceFolders, notifications>>

\* as NoEditor, without the early return
NoEditorIgnored(editor) == FALSE

\* line 81
NoEditor(editor) == ~editor

\* lines 79-84: the command up to its await
FormatDocumentCommand(filename, launch, prog) ==
  /\ CanStart
  /\ IF NoEditor(activeEditor)
     THEN /\ reqs' = Append(reqs, NewRequest("manual", FALSE, filename, << >>, "ok"))
          /\ UNCHANGED <<procs, escaped>>
     ELSE RunGersemi("manual", filename, launch, prog)
  /\ UNCHANGED <<doc, activeEditor, workspaceFolders, notifications>>

\* ------------------------------------------------------------ data events
\* as DeliverStdout, with one accumulator shared by all calls
DeliverStdoutShared(rs, r, d) ==
  [i \in DOMAIN rs |-> [rs[i] EXCEPT !.stdout = Accumulate(@, d)]]

\* as DeliverStdout, with the promise resolved by the first chunk
DeliverStdoutResolves(rs, r, d) ==
  [rs EXCEPT ![r].stdout = Accumulate(@, d),
             ![r].promise = "resolved",
             ![r].result = Str(Accumulate(rs[r].stdout, d)),
             ![r].resolves = @ + 1]

\* lines 48-50: the stdout listener of one child runs on that call's closure
DeliverStdout(rs, r, d) == [rs EXCEPT ![r].stdout = Accumulate(@, d)]

\* lines 51-53: the stderr listener
DeliverStderr(rs, r, d) == [rs EXCEPT ![r].stderr = Accumulate(@, d)]

OnStdoutData(p, k) ==
  /\ p \in 1..Len(procs)
  /\ ~procs[p].closeEmitted
  /\ k \in 1..Len(procs[p].outRem)
  /\ LET d == SubSeq(procs[p].outRem, 1, k) IN
       /\ procs' = [procs EXCEPT ![p].outRem = Drop(@, k),
                                 ![p].outChunks = Append(@, d)]
       /\ reqs' = DeliverStdout(reqs, procs[p].owner, d)
  /\ UNCHANGED <<doc, activeEditor, workspaceFolders, notifications, escaped>>

OnStderrData(p, k) ==
  /\ p \in 1..Len(procs)
  /\ ~procs[p].closeEmitted
  /\ k \in 1..Len(procs[p].errRem)
  /\ LET d == SubSeq(procs[p].errRem, 1, k) IN
       /\ procs' = [procs EXCEPT ![p].errRem = Drop(@, k),
                                 ![p].errChunks = Append(@, d)]
       /\ reqs' = DeliverStderr(reqs, procs[p].owner, d)
  /\ UNCHANGED <<doc, activeEditor, workspaceFolders, notifications, escaped>>

\* ----------------------------------------------------------- process end
\* the process has ended and its streams are closed: the child emits 'close'
ProcessCloses(p) ==
  /\ p \in 1..Len(procs)
  /\ procs[p].launch = "ok"
  /\ ~procs[p].closeEmitted
  /\ procs[p].outRem = << >> /\ procs[p].errRem = << >>
  /\ procs' = [procs EXCEPT ![p].closeEmitted = TRUE]
  /\ UNCHANGED <<doc, activeEditor, workspaceFolders, reqs, notifications, escaped>>

\* positionAt clamps the offset into the document
PositionAt(d, offset) ==
  IF offset < 0 THEN 0 ELSE IF offset > Len(d) THEN Len(d) ELSE offset

Range(start, end) == [start |-> start, end |-> end]

\* lines 14-18: what the provider returns
AutoEdits(d, input, formatted) ==
  IF formatted.isNull THEN << >>
  ELSE <<[range |-> Range(PositionAt(d, 0), PositionAt(d, Len(input))),
          newText |-> formatted.text]>>

\* as ManualRange, with the length of the text that was sent
ManualRangeOfInput(d, input) == Range(PositionAt(d, 0), PositionAt(d, Len(input)))

\* lines 87-90: the range the command replaces
ManualRange(d, input) == Range(PositionAt(d, 0), PositionAt(d, Len(d)))

\* as ManualEdits, without the test for null
ManualEditsAlways(d, input, formatted) ==
  <<[range |-> ManualRange(d, input), newText |-> formatted.text]>>

\* lines 85-93: the edits the command applies through editor.edit
ManualEdits(d, input, formatted) ==
  IF formatted.isNull THEN << >>
  ELSE <<[range |-> ManualRange(d, input), newText |-> formatted.text]>>

\* builder.replace applied to the buffer
ApplyEdits(d, edits) ==
  IF edits = << >> THEN d
  ELSE SubSeq(d, 1, edits[1].range.start) \o edits[1].newText
         \o Drop(d, edits[1].range.end)

\* lines 56-63: the close listener settles the promise of its call
CloseHandler(q, code, edits) ==
  IF q.promise = "pending"
  THEN [q EXCEPT !.promise = "resolved", !.result = ResolveValue(code, q.stdout),
                 !.resolves = @ + 1, !.edits = edits, !.done = TRUE]
  ELSE [q EXCEPT !.resolves = @ + 1]

\* lines 56-63, then the caller's continuation after its await
OnClose(p) ==
  /\ p \in 1..Len(procs)
  /\ procs[p].closeEmitted /\ ~procs[p].closeHandled
  /\ LET r == procs[p].owner
         q == reqs[r]
         code == procs[p].prog.code
         formatted == ResolveValue(code, q.stdout)
         edits == IF q.kind = "auto"
                  THEN AutoEdits(doc, q.input, formatted)
                  ELSE ManualEdits(doc, q.input, formatted)
     IN
       /\ procs' = [procs EXCEPT ![p].closeHandled = TRUE]
       /\ notifications' = Notify(notifications, r, code, q.stderr)
       /\ reqs' = [reqs EXCEPT ![r] = CloseHandler(q, code, edits)]
       /\ doc' = IF q.promise = "pending" /\ q.kind = "manual"
                 THEN ApplyEdits(doc, edits) ELSE doc
  /\ UNCHANGED <<activeEditor, workspaceFolders, escaped>>

\* the child's 'error' event: runGersemi registered no listener for it, the
\* error is thrown out of the event loop and 'close' is never emitted
OnSpawnError(p) ==
  /\ p \in 1..Len(procs)
  /\ procs[p].launch = "errorEvent" /\ ~procs[p].errorEmitted
  /\ procs' = [procs EXCEPT ![p].errorEmitted = TRUE]
  /\ escaped' = escaped \cup {<<procs[p].owner, "error">>}
  /\ UNCHANGED <<doc, activeEditor, workspaceFolders, reqs, notifications>>

\* the child ended without reading its stdin: the write fails (EPIPE) and
\* child.stdin emits 'error', for which there is no listener either
OnStdinError(p) ==
  /\ p \in 1..Len(procs)
  /\ procs[p].launch = "ok" /\ ~procs[p].prog.reads
  /\ procs[p].stdin # << >> /\ ~procs[p].stdinFailed
  /\ ~procs[p].closeEmitted
  /\ procs' = [procs EXCEPT ![p].stdinFailed = TRUE]
  /\ escaped' = escaped \cup {<<procs[p].owner, "stdin">>}
  /\ UNCHANGED <<doc, activeEditor, workspaceFolders, reqs, notifications>>

\* ------------------------------------------------------------ environment
UserEdit(t) ==
  /\ t # doc
  /\ doc' = t
  /\ UNCHANGED <<activeEditor, workspaceFolders, reqs, procs, notifications, escaped>>

SwitchEditor ==
  /\ activeEditor' = ~activeEditor
  /\ UNCHANGED <<doc, workspaceFolders, reqs, procs, notifications, escaped>>

WorkspaceChange(ws) ==
  /\ ws # workspaceFolders
  /\ workspaceFolders' = ws
  /\ UNCHANGED <<doc, activeEditor, reqs, procs, notifications, escaped>>

\* ---------------------------------------------------------- specifications
Procs == 1..Cardinality(ReqIds)
Chunk == 1..(3 * (MaxLen + 1))

Events ==
  \/ \E p \in Procs, k \in Chunk : OnStdoutData(p, k)
  \/ \E p \in Procs, k \in Chunk : OnStderrData(p, k)
  \/ \E p \in Procs : ProcessCloses(p)
  \/ \E p \in Procs : OnClose(p)
  \/ \E t \in TextsUpTo(MaxLen) : UserEdit(t)

\* one format invocation, of any kind and with any outcome of the spawn, in
\* an environment that changes freely
Init ==
  /\ doc = << >>
  /\ activeEditor = FALSE
  /\ workspaceFolders = << >>
  /\ reqs = << >>
  /\ procs = << >>
  /\ notifications = << >>
  /\ escaped = {}

Next ==
  \/ \E f \in FileNames, o \in Outcomes :
       reqs = << >> /\ ProvideDocumentFormattingEdits(f, o.launch, o.prog)
  \/ \E f \in FileNames, o \in Outcomes :
       reqs = << >> /\ FormatDocumentCommand(f, o.launch, o.prog)
  \/ Events
  \/ \E p \in Procs : OnSpawnError(p)
  \/ \E p \in Procs : OnStdinError(p)
  \/ SwitchEditor
  \/ \E ws \in Workspaces : WorkspaceChange(ws)

Spec == Init /\ [][Next]_vars

\* the event loop runs every listener whose event is queued
FairSpec == Spec /\ \A p \in Procs : WF_vars(OnClose(p))

\* two invocations that may overlap, each spawning a process that starts,
\* with an editor open on the document
InitConcurrent ==
  /\ doc = << >>
  /\ activeEditor = TRUE
  /\ workspaceFolders = << >>
  /\ reqs = << >>
  /\ procs = << >>
  /\ notifications = << >>
  /\ escaped = {}

NextConcurrent ==
  \/ \E g \in {Echo0, Fail1} : ProvideDocumentFormattingEdits("CMakeLists.txt", "ok", g)
  \/ \E g \in {Echo0, Fail1} : FormatDocumentCommand("CMakeLists.txt", "ok", g)
  \/ Events

SpecConcurrent == InitConcurrent /\ [][NextConcurrent]_vars

\* ----------------------------------------------------------------- claims
ProcsOf(r) == {p \in DOMAIN procs : procs[p].owner = r}
NotesOf(r) == SelectSeq(notifications, LAMBDA n : n.req = r)
Bridged == {r \in DOMAIN reqs : reqs[r].bridge}
\* the processes whose close listener has run
Handled == {p \in DOMAIN procs : procs[p].closeHandled}
\* the invocation a step starts, the invocations a step completes
Started == IF Len(reqs') = Len(reqs) + 1 THEN {Len(reqs')} ELSE {}
Completed == {r \in DOMAIN reqs : ~reqs[r].done /\ reqs'[r].done}
FullRange(d) == Range(0, Len(d))

\* C1: every call of the bridge ends in a resolved promise, never in a
\* rejection or an error that escapes; a failure of any kind, a failed launch
\* or a failed write to stdin included, is absorbed and the caller gets null.
C1_FailuresAbsorbed ==
  /\ escaped = {}
  /\ \A r \in Bridged : reqs[r].promise # "rejected"
  /\ \A p \in DOMAIN procs :
       procs[p].errorEmitted =>
         /\ reqs[procs[p].owner].promise = "resolved"
         /\ reqs[procs[p].owner].result = NullResult

\* C2: the bridge writes exactly T to the child's stdin and closes it; when
\* the child closes with status 0 the bridge resolves with the stdout chunks
\* joined in arrival order, whatever came on stderr, and shows no
\* notification; so with a stub that echoes stdin and exits 0 the result is
\* T, for every T and every split of the output into chunks.
C2_EchoRoundTrip ==
  \A p \in Handled :
    LET q == reqs[procs[p].owner] IN
    procs[p].prog.code = 0 =>
      /\ ToString(procs[p].stdin) = q.input /\ procs[p].stdinEnded
      /\ q.promise = "resolved"
      /\ q.result = Str(ConcatStrings(procs[p].outChunks))
      /\ NotesOf(procs[p].owner) = << >>
      /\ (procs[p].prog.echo => q.result = Str(q.input))

\* C3: when the process closes with a status other than 0, the null code of
\* a process killed by a signal included, the bridge resolves with null and
\* shows exactly one notification for the request, whose message holds the
\* whole accumulated stderr text, whatever came on stdout.
C3_NonZeroExit ==
  \A p \in Handled :
    LET r == procs[p].owner IN
    procs[p].prog.code # 0 =>
      /\ reqs[r].promise = "resolved"
      /\ reqs[r].result = NullResult
      /\ Len(NotesOf(r)) = 1
      /\ NotesOf(r)[1].msg.prefix = "gersemi failed: "
      /\ NotesOf(r)[1].msg.stderr = ConcatStrings(procs[p].errChunks)

C3_Witness ==
  \E p \in Handled :
    /\ procs[p].prog.code = NullCode
    /\ Len(procs[p].errChunks) = 2
    /\ Len(NotesOf(procs[p].owner)) = 1

\* C4: the arguments of a spawn are fixed by the workspace at the moment of
\* the call: '-', '--config' and the path of .gersemirc when a first
\* workspace folder exists and holds that file, '-' alone otherwise, also
\* when a later folder holds one; the file name plays no part.
ExpectedArgs(ws) ==
  IF ws # << >> /\ ws[1].rc
  THEN <<"-", "--config", <<ws[1].uri, ".gersemirc">>>>
  ELSE <<"-">>

C4_Arguments ==
  [][\A r \in Started :
       /\ reqs'[r].bridge =>
            \E p \in DOMAIN procs' \ DOMAIN procs :
              /\ procs'[p].owner = r
              /\ procs'[p].args = ExpectedArgs(workspaceFolders)
       /\ \A p \in DOMAIN procs : procs'[p].args = procs[p].args]_vars

C4_Witness ==
  /\ \E p \in DOMAIN procs :
       procs[p].args = <<"-", "--config", <<"/w1", ".gersemirc">>>>
                          /\ reqs[procs[p].owner].filename = "rules.cmake"

\* C5: an automatic invocation whose bridge call succeeds returns exactly one
\* edit, over the full document from offset 0 to its end, with the bridge's
\* result as the new text, and no edit when the bridge returns null; also
\* when the document changed while the call was pending.
C5_ProviderEdits ==
  [][\A r \in Completed :
       (reqs[r].kind = "auto" /\ reqs'[r].promise = "resolved") =>
         reqs'[r].edits =
           IF reqs'[r].result.isNull THEN << >>
           ELSE <<[range |-> FullRange(doc), newText |-> reqs'[r].result.text]>>]_vars

\* C6: the command invoked with no active editor makes no edit, shows no
\* notification and spawns no process.
C6_NoEditor ==
  /\ [][\A r \in Started :
          (reqs'[r].kind = "manual" /\ ~activeEditor) =>
            /\ ~reqs'[r].bridge
            /\ UNCHANGED <<doc, procs, notifications, escaped>>]_vars
  /\ [](\A r \in DOMAIN reqs \ Bridged :
          /\ reqs[r].edits = << >>
          /\ ProcsOf(r) = {}
          /\ NotesOf(r) = << >>)

C6_Witness == \E r \in DOMAIN reqs : reqs[r].kind = "manual" /\ ~reqs[r].bridge

\* C7 as claimed: the command with a successful bridge result leaves the
\* buffer equal to the result, by an edit over the full range of the text
\* that was sent to the formatter.
C7_RangeOfSentText ==
  [][\A r \in Completed :
       (reqs[r].kind = "manual" /\ ~reqs'[r].result.isNull) =>
         /\ doc' = reqs'[r].result.text
         /\ reqs'[r].edits =
              <<[range |-> FullRange(reqs[r].input),
                 newText |-> reqs'[r].result.text]>>]_vars

\* C7 as amended: the command with a successful bridge result leaves the
\* buffer equal to the result, by an edit over the full range of the
\* document as it is when the bridge call resolves.
C7_RangeOfCurrentText ==
  [][\A r \in Completed :
       (reqs[r].kind = "manual" /\ ~reqs'[r].result.isNull) =>
         /\ doc' = reqs'[r].result.text
         /\ reqs'[r].edits =
              <<[range |-> FullRange(doc), newText |-> reqs'[r].result.text]>>]_vars

C7_Witness ==
  \E r \in DOMAIN reqs :
    /\ reqs[r].kind = "manual" /\ reqs[r].done /\ ~reqs[r].result.isNull
    /\ reqs[r].edits[1].range.end > Len(reqs[r].input)
    /\ doc = reqs[r].result.text
    /\ Len(reqs) = 2

\* C8: a failed request leaves the document as it was: with a null result
\* the command applies no edit and the provider returns none; a notification
\* is shown only for an exit status other than 0.
C8_FailureLeavesDocument ==
  /\ [][\A r \in Completed :
          (reqs'[r].promise = "resolved" /\ reqs'[r].result.isNull) =>
            doc' = doc /\ reqs'[r].edits = << >>]_vars
  /\ [][\A r \in Started : reqs'[r].done => doc' = doc /\ reqs'[r].edits = << >>]_vars
  /\ [][\A r \in DOMAIN reqs : reqs[r].done => reqs'[r].edits = reqs[r].edits]_vars
  /\ [](\A i \in DOMAIN notifications :
          \E p \in Handled :
            procs[p].owner = notifications[i].req /\ procs[p].prog.code # 0)

C8_Witness ==
  \E r \in DOMAIN reqs :
    /\ reqs[r].kind = "manual" /\ reqs[r].promise = "resolved"
    /\ reqs[r].result.isNull
    /\ doc # << >>

\* C9: each request spawns exactly one process, and the result and the
\* notification of a request come from the stdout chunks, the stderr chunks
\* and the exit status of its own process alone, however the events of
\* requests pending together interleave.
C9_Independent ==
  \A r \in Bridged :
    /\ Cardinality(ProcsOf(r)) = 1
    /\ \A p \in ProcsOf(r) :
         /\ reqs[r].stdout = ConcatStrings(procs[p].outChunks)
         /\ reqs[r].stderr = ConcatStrings(procs[p].errChunks)
         /\ procs[p].closeHandled =>
              /\ reqs[r].result =
                   IF procs[p].prog.code = 0
                   THEN Str(ConcatStrings(procs[p].outChunks)) ELSE NullResult
              /\ NotesOf(r) =
                   IF procs[p].prog.code = 0 THEN << >>
                   ELSE <<[req |-> r,
                           msg |-> ErrorMessage(ConcatStrings(procs[p].errChunks))]>>
         /\ ~procs[p].closeHandled => NotesOf(r) = << >> /\ ~reqs[r].done

\* two requests pending together, each with data from its own process
C9_Witness ==
  /\ Len(procs) = 2
  /\ \A p \in DOMAIN procs : ~procs[p].closeEmitted /\ procs[p].outChunks # << >>
  /\ reqs[1].stdout # reqs[2].stdout
  /\ reqs[1].kind # reqs[2].kind

\* C10: a request is settled by the close event of its process alone: not
\* before the process closes, at most once, pending for as long as the
\* process has not closed, and resolved in the end once it has.
C10_SettledByClose ==
  /\ [](\A r \in Bridged :
          /\ reqs[r].resolves <= 1
          /\ reqs[r].promise = "resolved" =>
               \E p \in ProcsOf(r) : procs[p].closeEmitted /\ procs[p].closeHandled
          /\ (\A p \in ProcsOf(r) : ~procs[p].closeEmitted) =>
               reqs[r].promise # "resolved")
  /\ [][\A r \in DOMAIN reqs :
          reqs[r].promise = "resolved" =>
            reqs'[r].promise = "resolved" /\ reqs'[r].result = reqs[r].result]_vars
  /\ \A p \in Procs :
       (p \in DOMAIN procs /\ procs[p].closeEmitted)
         ~> (p \in DOMAIN procs /\ reqs[procs[p].owner].promise = "resolved")

C10_Witness ==
  \E p \in Handled :
    /\ reqs[procs[p].owner].promise = "resolved"
    /\ reqs[procs[p].owner].resolves = 1
    /\ procs[p].outChunks # << >>

====
